---- MODULE Spec2Model ----
(***************************************************************************)
(* Model of the heater control server (pid_controller_server.py) and of    *)
(* the device classes it drives (device_models.py).                        *)
(*                                                                         *)
(* Numbers.  Every float of the program (volts, amps, degrees, seconds,    *)
(* gains) is an integer count of 1e-4 units: 25.5 is 255000, 1 s is 10000. *)
(* Text.  A Python str is a sequence of symbols: a symbol is a word (a run *)
(* of non-blank characters), one blank " " or the carriage return "\r".    *)
(***************************************************************************)
EXTENDS Integers, Sequences, FiniteSets, TLC

VARIABLES
    pc,             \* position of main: "top", "step", "recv", "done", "crashed"
    now,            \* time.time()
    t0,             \* main's t0
    asm,            \* the HeaterAssembly object (controller and DAQ fields)
    ps,             \* the SPD3303X object and the supply behind it
    wire,           \* symbols the client has sent that have not arrived yet
    rxbuf,          \* symbols buffered in the server's socket
    closed,         \* the client has closed its end of the connection
    nsent,          \* number of lines the client has sent
    data,           \* main's data: what recv returned in this iteration, <<>> before it
    out,            \* main's out: what process_command returned in this iteration
    exc,            \* the exception that left main, <<type, raised in>>, or <<>>
    tx,             \* the sendall calls of this iteration: the responses written
    stepsSincePoll, \* control steps finished since the last recv call
    lastStepEnd,    \* time at which the last control step finished, -1 if none
    lastWrite,      \* per command name, the value of its last completed write
    gpc,            \* position inside GM3.query / GM3.command, "idle" before the call
    fn,             \* the GM3 method called: "query" or "command"
    command,        \* its argument
    qry,            \* query's qry, command's cmd: the hex text of the opcode
    r_bytes,        \* query's r: the bytes read so far (None is <<>>)
    ack,            \* query's ack: the bytes of the last one-byte read ('' is <<>>)
    error_count,    \* the module global error_count
    count0,         \* error_count when the method was called
    io,             \* the write and read calls made on the serial port, in order
    pending,        \* bytes the gaussmeter has sent that no read has returned yet
    replies,        \* the acknowledge byte of each frame the gaussmeter answered
    ntimeouts,      \* reads of this call that timed out
    query_bytes,    \* get_instantenous_data's query_bytes
    readings,       \* get_instantenous_data's out
    dpc,            \* position of get_instantenous_data: "call" or "returned"
    call            \* the last call made on the supply object or the dispatcher

srvvars == <<pc, now, t0, asm, ps, wire, rxbuf, closed, nsent, data, out, exc, tx,
             stepsSincePoll, lastStepEnd, lastWrite>>
gmvars == <<gpc, fn, command, qry, r_bytes, ack, error_count, count0, io, pending,
            replies, ntimeouts>>
decvars == <<query_bytes, readings, dpc>>
psvars == <<call>>
vars == <<srvvars, gmvars, decvars, psvars>>

(***************************************************************************)
(* Bounds of the model.                                                    *)
(***************************************************************************)
\* lines the client sends in a session of Spec (any line of AllLines)
MaxLines == 1
\* lines the client sends in a session of SpecCtl (lines of CtlLines)
MaxCtlLines == 2
\* seconds the clock runs
MaxTime == 2

(***************************************************************************)
(* Text and conversions.                                                   *)
(***************************************************************************)
CR == "\r"
SP == " "

\* str.split(): the words of a text; blanks and carriage returns separate.
RECURSIVE Split(_)
Split(s) ==
    IF s = <<>> THEN <<>>
    ELSE IF Head(s) \in {SP, CR} THEN Split(Tail(s))
         ELSE <<Head(s)>> \o Split(Tail(s))

\* float(s): the value of a word in 1e-4 units; words outside the table raise
\* ValueError.
FloatTable ==
    [w \in {"0", "1", "2", "25.5", "5.0004", "40", "-1", "0.5"} |->
        CASE w = "0" -> 0
          [] w = "1" -> 10000
          [] w = "2" -> 20000
          [] w = "25.5" -> 255000
          [] w = "5.0004" -> 50004
          [] w = "40" -> 400000
          [] w = "-1" -> -10000
          [] w = "0.5" -> 5000]

FloatOk(w) == w \in DOMAIN FloatTable
Float(w) == FloatTable[w]

\* int(s): only words that are integer literals convert.
IntTable ==
    [w \in {"0", "1", "2", "40", "-1"} |->
        CASE w = "0" -> 0
          [] w = "1" -> 1
          [] w = "2" -> 2
          [] w = "40" -> 40
          [] w = "-1" -> -1]

IntOk(w) == w \in DOMAIN IntTable
Int_(w) == IntTable[w]

\* str(x) of a float: shortest repr, always with a fractional part.
FloatStr(v) ==
    CASE v = 0 -> "0.0"
      [] v = 10000 -> "1.0"
      [] v = 20000 -> "2.0"
      [] v = 255000 -> "25.5"
      [] v = 50004 -> "5.0004"
      [] v = 50000 -> "5.0"
      [] v = 400000 -> "40.0"
      [] v = -10000 -> "-1.0"
      [] v = 5000 -> "0.5"
      [] v = 200000 -> "20.0"
      [] v = 300000 -> "30.0"
      [] v = 320000 -> "32.0"
      [] v = 33000 -> "3.3"
      [] OTHER -> "<float>"

\* str(x) of an int.
IntStr(v) ==
    CASE v = 0 -> "0"
      [] v = 1 -> "1"
      [] v = 2 -> "2"
      [] v = 40 -> "40"
      [] v = -1 -> "-1"
      [] OTHER -> "<int>"

\* round(x, 3): to the nearest multiple of 1e-3, an exact tie to the even one.
Round3(v) ==
    LET q == v \div 10
        r == v % 10
    IN  IF r < 5 THEN q * 10
        ELSE IF r > 5 THEN (q + 1) * 10
        ELSE IF q % 2 = 0 THEN q * 10 ELSE (q + 1) * 10

(***************************************************************************)
(* SPD3303X: the power supply.  ps holds, per channel, what the supply     *)
(* stores (set voltage, set current, output state) and the software limits *)
(* the object keeps.  An operation yields [exc, ps]: the exception it      *)
(* raised ("" for none) and the supply afterwards.                         *)
(***************************************************************************)
MAX_voltage_limit == 320000
MAX_current_limit == 33000
number_of_channels == 2

Channels == 1..number_of_channels

PsOk(p) == [exc |-> "", ps |-> p]
PsRaise(e, p) == [exc |-> e, ps |-> p]

\* PowerSupply.check_channel_syntax: a channel the supply does not have is refused.
check_channel_syntax(channel) == channel \in Channels

get_voltage_limit(p, channel) == p.channel_voltage_limits[channel]
get_current_limit(p, channel) == p.channel_current_limits[channel]
get_set_voltage(p, channel) == p.set_voltage[channel]
get_set_current(p, channel) == p.set_current[channel]
get_channel_state(p, channel) == p.state[channel]

\* measure:voltage? / measure:current? : what the output terminals carry.
get_actual_voltage(p, channel) == IF p.state[channel] THEN p.set_voltage[channel] ELSE 0
get_actual_current(p, channel) == IF p.state[channel] THEN p.set_current[channel] ELSE 0

set_channel_state(p, channel, on) ==
    IF ~check_channel_syntax(channel) THEN PsRaise("ValueError", p)
    ELSE PsOk([p EXCEPT !.state[channel] = on])

\* set_set_voltage without the test of line 427
set_set_voltage_Unchecked(p, channel, volts) ==
    IF ~check_channel_syntax(channel) THEN PsRaise("ValueError", p)
    ELSE PsOk([p EXCEPT !.set_voltage[channel] = Round3(volts)])

set_set_voltage(p, channel, volts) ==
    IF ~check_channel_syntax(channel) THEN PsRaise("ValueError", p)
    ELSE LET v == Round3(volts)
             limit == get_voltage_limit(p, channel)
         IN  IF v <= limit
             THEN PsOk([p EXCEPT !.set_voltage[channel] = v])
             ELSE PsRaise("ValueError", p)

set_set_current(p, channel, amps) ==
    IF ~check_channel_syntax(channel) THEN PsRaise("ValueError", p)
    ELSE LET a == Round3(amps)
             limit == get_current_limit(p, channel)
         IN  IF a <= limit
             THEN PsOk([p EXCEPT !.set_current[channel] = a])
             ELSE PsRaise("ValueError", p)

\* The refusals only print; the present set value compared is channel 1's.
set_channel_voltage_limit(p, channel, volts) ==
    IF ~check_channel_syntax(channel) THEN PsRaise("ValueError", p)
    ELSE IF volts > MAX_voltage_limit \/ volts <= 0 THEN PsOk(p)
    ELSE IF volts < get_set_voltage(p, 1) THEN PsOk(p)
    ELSE PsOk([p EXCEPT !.channel_voltage_limits[channel] = volts])

set_channel_current_limit(p, channel, amps) ==
    IF ~check_channel_syntax(channel) THEN PsRaise("ValueError", p)
    ELSE IF amps > MAX_current_limit \/ amps <= 0 THEN PsOk(p)
    ELSE IF amps < get_set_current(p, 1) THEN PsOk(p)
    ELSE PsOk([p EXCEPT !.channel_current_limits[channel] = amps])

\* SPD3303X(ip) with reset_on_startup: outputs off, set values zero, limits at MAX.
PsInit ==
    [set_voltage |-> [c \in Channels |-> 0],
     set_current |-> [c \in Channels |-> 0],
     state |-> [c \in Channels |-> FALSE],
     channel_voltage_limits |-> [c \in Channels |-> MAX_voltage_limit],
     channel_current_limits |-> [c \in Channels |-> MAX_current_limit]]

(***************************************************************************)
(* HeaterAssembly: the shared control state.  Its supply_* attributes act  *)
(* on the assembly's channel of the supply.                                *)
(***************************************************************************)
AsmInit ==
    [supply_channel |-> 1,
     daq_channel |-> 0,
     thermocouple_type |-> "K",
     temp_units |-> "celsius",
     temp |-> 200000,
     pid_kp |-> 10000,
     pid_ki |-> 0,
     pid_kd |-> 0,
     set_temperature |-> 0,
     sample_time |-> 10000,
     pid_regulating |-> 0,
     configured |-> FALSE]

\* if assembly.pid_regulating: Python truth of the stored int.
Regulating(a) == a.pid_regulating # 0

\* asm.configure_power_supply()
configure_power_supply(a) == [a EXCEPT !.configured = TRUE]

\* asm.supply_channel = n
set_supply_channel(a, n) ==
    IF check_channel_syntax(n) THEN [exc |-> "", asm |-> [a EXCEPT !.supply_channel = n]]
    ELSE [exc |-> "ValueError", asm |-> a]

(***************************************************************************)
(* process_command(cmd, asm).  The result is [exc, out, asm, ps]: the      *)
(* exception raised ("" for none), the value returned, and the assembly    *)
(* and supply as the call leaves them.  A value is [kind, num, text]; kind *)
(* "None" is Python's None.                                                *)
(***************************************************************************)
None == [kind |-> "None", num |-> 0, text |-> <<>>]
FloatVal(v) == [kind |-> "float", num |-> v, text |-> <<>>]
IntVal(v) == [kind |-> "int", num |-> v, text |-> <<>>]
StrVal(t) == [kind |-> "str", num |-> 0, text |-> t]

\* str(out)
Str(o) ==
    CASE o.kind = "float" -> <<FloatStr(o.num)>>
      [] o.kind = "int" -> <<IntStr(o.num)>>
      [] o.kind = "str" -> o.text
      [] OTHER -> <<"None">>

Ret(o, a, p) == [exc |-> "", out |-> o, asm |-> a, ps |-> p]
Raise(e, a, p) == [exc |-> e, out |-> None, asm |-> a, ps |-> p]

\* a supply call made on behalf of the assembly: its exception propagates
ViaPs(r, a) == IF r.exc = "" THEN Ret(None, a, r.ps) ELSE Raise(r.exc, a, r.ps)

\* a supply step of a sequence: skipped once an earlier step has raised
Then(r, next) == IF r.exc = "" THEN next ELSE r

\* the read/write commands whose value is a plain float attribute of asm
PidFloatField ==
    [f \in {"PD:KPRO", "PD:KINT", "PD:KDER", "PD:SETP", "PD:SAMP"} |->
        CASE f = "PD:KPRO" -> "pid_kp"
          [] f = "PD:KINT" -> "pid_ki"
          [] f = "PD:KDER" -> "pid_kd"
          [] f = "PD:SETP" -> "set_temperature"
          [] f = "PD:SAMP" -> "sample_time"]

\* lines 131-155: return asm.<attr>
PidRead(f, a) == a[PidFloatField[f]]

\* PidWrite with PD:KINT's branch storing into pid_kp
PidWrite_WrongAttr(f, v, a) ==
    IF f = "PD:KINT" THEN [a EXCEPT !.pid_kp = v] ELSE [a EXCEPT ![PidFloatField[f]] = v]

\* lines 131-155: asm.<attr> = float(s)
PidWrite(f, v, a) == [a EXCEPT ![PidFloatField[f]] = v]

PsFloatCmds == {"PS:VOLT", "PS:VSET", "PS:AMPS", "PS:ASET", "PS:VLIM", "PS:ALIM"}

\* lines 66-95: the float attributes of the supply
PsFloatRead(f, a, p) ==
    LET ch == a.supply_channel
    IN  CASE f = "PS:VOLT" -> get_actual_voltage(p, ch)
          [] f = "PS:VSET" -> get_set_voltage(p, ch)
          [] f = "PS:AMPS" -> get_actual_current(p, ch)
          [] f = "PS:ASET" -> get_set_current(p, ch)
          [] f = "PS:VLIM" -> get_voltage_limit(p, ch)
          [] f = "PS:ALIM" -> get_current_limit(p, ch)

PsFloatWrite(f, v, a, p) ==
    LET ch == a.supply_channel
    IN  CASE f \in {"PS:VOLT", "PS:VSET"} -> set_set_voltage(p, ch, v)
          [] f \in {"PS:AMPS", "PS:ASET"} -> set_set_current(p, ch, v)
          [] f = "PS:VLIM" -> set_channel_voltage_limit(p, ch, v)
          [] f = "PS:ALIM" -> set_channel_current_limit(p, ch, v)

\* PsResetSteps with the output enabled first
PsResetSteps_EnableFirst(a, p) ==
    LET ch == a.supply_channel
        r1 == set_channel_state(p, ch, TRUE)
        r2 == Then(r1, set_set_voltage(r1.ps, ch, 0))
        r3 == Then(r2, set_set_current(r2.ps, ch, 0))
        r4 == Then(r3, set_channel_voltage_limit(r3.ps, ch, MAX_voltage_limit))
        r5 == Then(r4, set_channel_current_limit(r4.ps, ch, MAX_current_limit))
    IN  <<r1, r2, r3, r4, r5>>

\* lines 55-59: the supply after each of the five assignments
PsResetSteps(a, p) ==
    LET ch == a.supply_channel
        r1 == set_set_voltage(p, ch, 0)
        r2 == Then(r1, set_set_current(r1.ps, ch, 0))
        r3 == Then(r2, set_channel_voltage_limit(r2.ps, ch, MAX_voltage_limit))
        r4 == Then(r3, set_channel_current_limit(r3.ps, ch, MAX_current_limit))
        r5 == Then(r4, set_channel_state(r4.ps, ch, TRUE))
    IN  <<r1, r2, r3, r4, r5>>

\* lines 54-59
PsReset(a, p) == PsResetSteps(a, p)[5]

\* lines 60-63
PsStop(a, p) ==
    LET ch == a.supply_channel
        r1 == set_channel_state(p, ch, FALSE)
        r2 == Then(r1, set_set_voltage(r1.ps, ch, 0))
    IN  Then(r2, set_set_current(r2.ps, ch, 0))

KnownCmds ==
    {"PS:IDN", "PS:RSET", "PS:STOP", "PS:REDY", "PS:CHIO", "PS:CHAN",
     "DQ:IDN", "DQ:TEMP", "DQ:CHAN", "DQ:TCTY", "DQ:UNIT", "PD:IDN", "PD:REGT"}
        \cup PsFloatCmds \cup DOMAIN PidFloatField

\* the commands whose branch reads the second word s
ArgCmds ==
    {"PS:CHIO", "PS:CHAN", "DQ:CHAN", "DQ:TCTY", "DQ:UNIT", "PD:REGT"}
        \cup PsFloatCmds \cup DOMAIN PidFloatField

\* lines 52-166 for a branch that reads s, s bound
DispatchArg(f, s, a, p) ==
    CASE f \in PsFloatCmds ->
            IF s = "?" THEN Ret(FloatVal(PsFloatRead(f, a, p)), a, p)
            ELSE IF ~FloatOk(s) THEN Raise("ValueError", a, p)
            ELSE ViaPs(PsFloatWrite(f, Float(s), a, p), a)
      [] f = "PS:CHIO" ->
            IF s = "?"
            THEN Ret(IntVal(IF get_channel_state(p, a.supply_channel) THEN 1 ELSE 0), a, p)
            ELSE IF ~IntOk(s) THEN Raise("ValueError", a, p)
            ELSE ViaPs(set_channel_state(p, a.supply_channel, Int_(s) # 0), a)
      [] f = "PS:CHAN" ->
            IF s = "?" THEN Ret(IntVal(a.supply_channel), a, p)
            ELSE IF ~IntOk(s) THEN Raise("ValueError", a, p)
            ELSE LET r == set_supply_channel(a, Int_(s))
                 IN  IF r.exc = "" THEN Ret(None, r.asm, p) ELSE Raise(r.exc, a, p)
      [] f = "DQ:CHAN" ->
            IF s = "?" THEN Ret(IntVal(a.daq_channel), a, p)
            ELSE IF ~IntOk(s) THEN Raise("ValueError", a, p)
            ELSE Ret(None, [a EXCEPT !.daq_channel = Int_(s)], p)
      [] f = "DQ:TCTY" ->
            IF s = "?" THEN Ret(StrVal(<<a.thermocouple_type>>), a, p)
            ELSE Ret(None, [a EXCEPT !.thermocouple_type = s], p)
      [] f = "DQ:UNIT" ->
            IF s = "?" THEN Ret(StrVal(<<a.temp_units>>), a, p)
            ELSE Ret(None, [a EXCEPT !.temp_units = s], p)
      [] f \in DOMAIN PidFloatField ->
            IF s = "?" THEN Ret(FloatVal(PidRead(f, a)), a, p)
            ELSE IF ~FloatOk(s) THEN Raise("ValueError", a, p)
            ELSE Ret(None, PidWrite(f, Float(s), a), p)
      [] f = "PD:REGT" ->
            IF s = "?" THEN Ret(IntVal(a.pid_regulating), a, p)
            ELSE IF ~IntOk(s) THEN Raise("ValueError", a, p)
            ELSE IF Int_(s) = 1
                 THEN Ret(None, [configure_power_supply(a) EXCEPT !.pid_regulating = Int_(s)], p)
                 ELSE Ret(None, [a EXCEPT !.pid_regulating = Int_(s)], p)

\* lines 52-166 for a branch that does not read s
DispatchNoArg(f, cmd, a, p) ==
    CASE f = "PS:IDN" -> Ret(StrVal(<<"<SPD3303X>">>), a, p)
      [] f = "PS:RSET" -> ViaPs(PsReset(a, p), a)
      [] f = "PS:STOP" -> ViaPs(PsStop(a, p), a)
      [] f = "PS:REDY" -> Ret(None, configure_power_supply(a), p)
      [] f = "DQ:IDN" -> Ret(StrVal(<<"<E_Tc>">>), a, p)
      [] f = "DQ:TEMP" -> Ret(FloatVal(a.temp), a, p)
      [] f = "PD:IDN" -> Ret(StrVal(<<"<PID>">>), a, p)
      [] OTHER -> Ret(StrVal(<<"ERROR: bad command">> \o cmd), a, p)

\* cmd[-1] == '\r'
Terminated(cmd) == cmd[Len(cmd)] = CR

\* lines 45-166: the words are unpacked and the command's branch runs
ParseAndDispatch(cmd, a, p) ==
    LET words == Split(cmd)
    IN  IF Len(words) = 2
        THEN \* f, s = cmd.split()
             IF words[1] \in ArgCmds
             THEN DispatchArg(words[1], words[2], a, p)
             ELSE DispatchNoArg(words[1], cmd, a, p)
        ELSE \* the unpacking raised ValueError: f = cmd.split()[0], s unbound
             IF Len(words) = 0 THEN Raise("IndexError", a, p)
             ELSE IF words[1] \in ArgCmds THEN Raise("UnboundLocalError", a, p)
             ELSE DispatchNoArg(words[1], cmd, a, p)

\* process_command without the check of lines 42-43
process_command_Unchecked(cmd, a, p) == ParseAndDispatch(cmd, a, p)

process_command(cmd, a, p) ==
    IF ~Terminated(cmd) THEN Raise("ValueError", a, p)
    ELSE ParseAndDispatch(cmd, a, p)

(***************************************************************************)
(* The client and the connection.  A sent line travels on the wire and     *)
(* arrives in the server's socket buffer in pieces of any size.            *)
(***************************************************************************)
Line(f, s) == <<f, SP, s, CR>>
Line0(f) == <<f, CR>>

\* the lines a client of Spec may send: every command, read and written, and
\* the malformed ones
AllLines ==
    {Line(f, "?") : f \in ArgCmds}
        \cup {Line0(f) : f \in KnownCmds \cup {"XX:FOO"}}
        \cup {Line(f, s) : f \in DOMAIN PidFloatField, s \in {"25.5", "0", "abc"}}
        \cup {Line(f, s) : f \in PsFloatCmds, s \in {"5.0004", "40"}}
        \cup {Line(f, s) : f \in {"PS:CHIO", "PS:CHAN", "DQ:CHAN", "PD:REGT"},
                           s \in {"0", "1", "2", "abc"}}
        \cup {Line(f, s) : f \in {"DQ:TCTY", "DQ:UNIT"}, s \in {"J"}}
        \cup {<<CR>>, <<SP, CR>>, <<"PD:SETP", SP, "?">>, <<"PD:SETP", SP, "25.5">>,
              <<"PS:STOP">>, Line("XX:FOO", "1"), Line("XX:FOO", "?"),
              <<"XX:FOO", SP, "1", SP, "2", CR>>, <<"PD:SETP", SP, "1", SP, "2", CR>>,
              Line("PS:STOP", "1")}

\* the lines a client of SpecCtl may send: the controller's fields and the
\* commands that move the actuator
CtlLines ==
    {Line(f, s) : f \in DOMAIN PidFloatField, s \in {"?", "25.5"}}
        \cup {Line("PD:SAMP", "2"), Line("PD:REGT", "1"), Line("PD:REGT", "0"),
              Line("PS:VSET", "5.0004")}

Live == pc \in {"top", "step", "recv"}

ClientSend(lines, max) ==
    /\ Live /\ ~closed /\ nsent < max
    /\ \E l \in lines : wire' = wire \o l
    /\ nsent' = nsent + 1
    /\ UNCHANGED <<pc, now, t0, asm, ps, rxbuf, closed, data, out, exc, tx,
                   stepsSincePoll, lastStepEnd, lastWrite>>
    /\ UNCHANGED <<gmvars, decvars, psvars>>

ClientClose ==
    /\ Live /\ ~closed
    /\ closed' = TRUE
    /\ UNCHANGED <<pc, now, t0, asm, ps, wire, rxbuf, nsent, data, out, exc, tx,
                   stepsSincePoll, lastStepEnd, lastWrite>>
    /\ UNCHANGED <<gmvars, decvars, psvars>>

Deliver ==
    /\ Live /\ wire # <<>>
    /\ \E k \in 1..Len(wire) :
            /\ rxbuf' = rxbuf \o SubSeq(wire, 1, k)
            /\ wire' = SubSeq(wire, k + 1, Len(wire))
    /\ UNCHANGED <<pc, now, t0, asm, ps, closed, nsent, data, out, exc, tx,
                   stepsSincePoll, lastStepEnd, lastWrite>>
    /\ UNCHANGED <<gmvars, decvars, psvars>>

\* the clock advances in whole seconds
Tick ==
    /\ Live /\ now < MaxTime * 10000
    /\ now' = now + 10000
    /\ UNCHANGED <<pc, t0, asm, ps, wire, rxbuf, closed, nsent, data, out, exc, tx,
                   stepsSincePoll, lastStepEnd, lastWrite>>
    /\ UNCHANGED <<gmvars, decvars, psvars>>

(***************************************************************************)
(* main: the scheduler loop, lines 200-220.                                *)
(***************************************************************************)
\* the temperatures the DAQ may report and the outputs the PID may compute
Temps == {200000, 300000}
PidOutputs == {0, 50000}

\* HeaterAssembly.update_supply(): sample, compute, apply to the supply
update_supply(a, p, temp, u) ==
    LET r == set_set_voltage(p, a.supply_channel, u)
    IN  [exc |-> r.exc, asm |-> [a EXCEPT !.temp = temp], ps |-> r.ps]

\* line 201: an iteration starts: nothing received, returned or written yet
NewIteration == data' = <<>> /\ out' = None /\ tx' = <<>>

\* line 203
StepDue == now - t0 >= asm.sample_time

\* lines 202-204: regulating and the period has elapsed: the step starts
StepBegin ==
    /\ pc = "top" /\ Regulating(asm) /\ StepDue
    /\ pc' = "step"
    /\ stepsSincePoll' = stepsSincePoll + 1
    /\ NewIteration
    /\ UNCHANGED <<now, t0, asm, ps, wire, rxbuf, closed, nsent, exc,
                   lastStepEnd, lastWrite>>
    /\ UNCHANGED <<gmvars, decvars, psvars>>

\* AfterStep looping back to the control branch, as a `continue` would
AfterStep_Continue == "top"

\* lines 205-209: after the step the loop goes on to the recv
AfterStep == "recv"

\* NextT0 with line 206 left out: t0 keeps its value
NextT0_Stale == t0

\* line 206: t0 = time.time()
NextT0 == now

\* lines 204-206: update_supply returns, t0 is reset
StepEnd ==
    /\ pc = "step"
    /\ \E temp \in Temps, u \in PidOutputs :
         LET r == update_supply(asm, ps, temp, u)
         IN  /\ asm' = r.asm /\ ps' = r.ps
             /\ IF r.exc = ""
                THEN /\ t0' = NextT0 /\ pc' = AfterStep /\ lastStepEnd' = now
                     /\ UNCHANGED exc
                ELSE /\ pc' = "crashed" /\ exc' = <<r.exc, "update_supply">>
                     /\ UNCHANGED <<t0, lastStepEnd>>
    /\ UNCHANGED <<now, wire, rxbuf, closed, nsent, data, out, tx, stepsSincePoll,
                   lastWrite>>
    /\ UNCHANGED <<gmvars, decvars, psvars>>

\* line 204: a device call of update_supply fails (the link to the supply or
\* to the DAQ is down): the exception passes line 204, which no try encloses
StepFail ==
    /\ pc = "step"
    /\ pc' = "crashed"
    /\ exc' = <<"OSError", "update_supply">>
    /\ UNCHANGED <<now, t0, asm, ps, wire, rxbuf, closed, nsent, data, out, tx,
                   stepsSincePoll, lastStepEnd, lastWrite>>
    /\ UNCHANGED <<gmvars, decvars, psvars>>

\* lines 202-203: regulating, the period has not elapsed
SkipStep ==
    /\ pc = "top" /\ Regulating(asm) /\ ~StepDue
    /\ pc' = "recv"
    /\ NewIteration
    /\ UNCHANGED <<now, t0, asm, ps, wire, rxbuf, closed, nsent, exc,
                   stepsSincePoll, lastStepEnd, lastWrite>>
    /\ UNCHANGED <<gmvars, decvars, psvars>>

\* ForceZero with the else branch of lines 207-208 left out
ForceZero_Missing ==
    /\ pc = "top" /\ ~Regulating(asm)
    /\ pc' = "recv"
    /\ NewIteration
    /\ UNCHANGED <<now, t0, asm, ps, wire, rxbuf, closed, nsent, exc,
                   stepsSincePoll, lastStepEnd, lastWrite>>
    /\ UNCHANGED <<gmvars, decvars, psvars>>

\* lines 207-208: not regulating: assembly.supply_set_voltage = 0
ForceZero ==
    /\ pc = "top" /\ ~Regulating(asm)
    /\ LET r == set_set_voltage(ps, asm.supply_channel, 0)
       IN  /\ ps' = r.ps
           /\ IF r.exc = "" THEN pc' = "recv" /\ UNCHANGED exc
              ELSE pc' = "crashed" /\ exc' = <<r.exc, "main">>
    /\ NewIteration
    /\ UNCHANGED <<now, t0, asm, wire, rxbuf, closed, nsent,
                   stepsSincePoll, lastStepEnd, lastWrite>>
    /\ UNCHANGED <<gmvars, decvars, psvars>>

\* line 210 raising BlockingIOError: nothing buffered, the client still there
RecvBlocked ==
    /\ pc = "recv" /\ rxbuf = <<>> /\ ~(closed /\ wire = <<>>)
    /\ pc' = "top"
    /\ stepsSincePoll' = 0
    /\ UNCHANGED <<now, t0, asm, ps, wire, rxbuf, closed, nsent, data, out, exc, tx,
                   lastStepEnd, lastWrite>>
    /\ UNCHANGED <<gmvars, decvars, psvars>>

\* lines 210-213: the zero-length read of a closed connection ends the loop
RecvEof ==
    /\ pc = "recv" /\ rxbuf = <<>> /\ closed /\ wire = <<>>
    /\ data' = <<>>
    /\ pc' = "done"
    /\ stepsSincePoll' = 0
    /\ UNCHANGED <<now, t0, asm, ps, wire, rxbuf, closed, nsent, out, exc, tx,
                   lastStepEnd, lastWrite>>
    /\ UNCHANGED <<gmvars, decvars, psvars>>

\* the commands whose last written value lastWrite keeps
Noted == DOMAIN PidFloatField \cup {"PD:REGT"}

\* a completed write `FIELD v` of a controller field: v as the client wrote it
NoteWrite(lw, cmd) ==
    LET words == Split(cmd)
    IN  IF Len(words) = 2 /\ words[1] \in Noted /\ words[2] # "?"
        THEN [lw EXCEPT ![words[1]] =
                [set |-> TRUE,
                 v |-> IF words[1] = "PD:REGT" THEN Int_(words[2]) ELSE Float(words[2])]]
        ELSE lw

\* Response without the terminator
Response_NoCR(o) == Str(o)

\* line 217: conn.sendall((str(out) + '\r').encode('utf-8'))
Response(o) == Str(o) \o <<CR>>

\* lines 210-217: everything buffered is one cmd (recv(1024) holds any text of
\* these sessions), dispatched, a result written back
RecvData ==
    /\ pc = "recv" /\ rxbuf # <<>>
    /\ data' = rxbuf
    /\ rxbuf' = <<>>
    /\ stepsSincePoll' = 0
    /\ LET r == process_command(rxbuf, asm, ps)
       IN  /\ asm' = r.asm /\ ps' = r.ps
           /\ IF r.exc = ""
              THEN /\ out' = r.out
                   /\ tx' = IF r.out.kind # "None" THEN Append(tx, Response(r.out)) ELSE tx
                   /\ pc' = "top"
                   /\ lastWrite' = NoteWrite(lastWrite, rxbuf)
                   /\ UNCHANGED exc
              ELSE /\ pc' = "crashed"
                   /\ exc' = <<r.exc, "process_command">>
                   /\ UNCHANGED <<out, tx, lastWrite>>
    /\ UNCHANGED <<now, t0, wire, closed, nsent, lastStepEnd>>
    /\ UNCHANGED <<gmvars, decvars, psvars>>

(***************************************************************************)
(* GM3 gaussmeter (device_models.py).  A byte on the serial link is a pair *)
(* <<value, frame>>: the value 0..255 that the program sees, and the       *)
(* number of the frame the gaussmeter was answering when it sent the byte. *)
(***************************************************************************)
\* frames one call of query writes before the model stops following it
MaxFrames == 6
\* reads of one call that time out
MaxTimeouts == 1

\* lines 67-80
qry_dict ==
    ("ID_METER_PROP" :> "01") @@ ("ID_METER_SETT" :> "02") @@
    ("STREAM_DATA" :> "03") @@ ("RESET_TIME" :> "04") @@
    ("01" :> "01") @@ ("02" :> "02") @@ ("03" :> "03") @@ ("04" :> "04") @@
    ("0x01" :> "01") @@ ("0x02" :> "02") @@ ("0x03" :> "03") @@ ("0x04" :> "04")

\* lines 91-96
read_length_dict == ("01" :> 20) @@ ("02" :> 20) @@ ("03" :> 30) @@ ("04" :> 31)

\* lines 123-127
cmd_dict == ("KILL_ALL_PROCESS" :> "FF") @@ ("FF" :> "FF") @@ ("0xFF" :> "FF")

\* str * n: n copies of a two-character hex text
StrTimes(h, n) == [i \in 1..n |-> h]

\* bytes.fromhex, on the hex texts the class uses
HexValue ==
    ("01" :> 1) @@ ("02" :> 2) @@ ("03" :> 3) @@ ("04" :> 4) @@
    ("07" :> 7) @@ ("08" :> 8) @@ ("FF" :> 255)
fromhex(hs) == [i \in DOMAIN hs |-> HexValue[hs[i]]]

\* the values of a run of link bytes: what the program compares and returns
Vals(bs) == [i \in DOMAIN bs |-> bs[i][1]]

\* arguments the callers pass to query and command
Commands ==
    {"ID_METER_PROP", "ID_METER_SETT", "STREAM_DATA", "RESET_TIME", "03", "0x04",
     "KILL_ALL_PROCESS", "FF", "05", "stream_data"}

\* the gaussmeter answers a frame with a block of data bytes and one
\* acknowledge byte, 0x08 (received) or 0x07 (complete): 0x07 is the byte that
\* is not the awaited one in the first loop of query, 0x08 in the second.
\* The sections of a stream reply hold the byte 0x08 (the sign flag of a
\* negative reading), the identity and settings replies are text.
DataFill(q) == IF q = "03" \/ q = "04" THEN 8 ELSE 65
AckBytes == {7, 8}
Reply(n, fill, a, frame) ==
    [i \in 1..(n + 1) |-> IF i <= n THEN <<fill, frame>> ELSE <<a, frame>>]

\* serial.Serial.write: the frame is logged, the gaussmeter answers it
Write(bytes, answered) ==
    /\ io' = Append(io, [op |-> "write", bytes |-> bytes, n |-> Len(bytes)])
    /\ IF answered
       THEN \E a \in AckBytes :
              /\ pending' = pending \o Reply(read_length_dict[qry], DataFill(qry),
                                              a, Len(replies) + 1)
              /\ replies' = Append(replies, a)
       ELSE UNCHANGED <<pending, replies>>

\* serial.Serial.read(n): n bytes, or fewer when the timeout expires first
ReadSizes(n) ==
    LET full == IF Len(pending) < n THEN Len(pending) ELSE n
    IN  {full} \cup (IF ntimeouts < MaxTimeouts
                     THEN {k \in {0, n - 1} : k <= Len(pending)}
                     ELSE {})
Read(n, k) ==
    /\ io' = Append(io, [op |-> "read", bytes |-> <<>>, n |-> n])
    /\ pending' = SubSeq(pending, k + 1, Len(pending))
    /\ ntimeouts' = IF k < n THEN ntimeouts + 1 ELSE ntimeouts

\* Lookup falling back on an opcode, as dict.get with a default would
Lookup_Default(f, c) ==
    LET dict == IF f = "query" THEN qry_dict ELSE cmd_dict
    IN  IF c \in DOMAIN dict THEN [ok |-> TRUE, qry |-> dict[c]]
        ELSE [ok |-> TRUE, qry |-> IF f = "query" THEN "03" ELSE "FF"]

\* lines 82-84 of query, 128-130 of command: ok is FALSE on KeyError
Lookup(f, c) ==
    LET dict == IF f = "query" THEN qry_dict ELSE cmd_dict
    IN  IF c \in DOMAIN dict THEN [ok |-> TRUE, qry |-> dict[c]]
        ELSE [ok |-> FALSE, qry |-> ""]

\* lines 82-99 of query, lines 128-132 of command
GMCall ==
    /\ gpc = "idle"
    /\ \E f \in {"query", "command"}, c \in Commands :
         /\ fn' = f /\ command' = c
         /\ LET l == Lookup(f, c)
            IN  IF l.ok
                THEN /\ qry' = l.qry
                     /\ gpc' = IF f = "query" THEN "loop1" ELSE "cmd_write"
                ELSE /\ gpc' = "raised"
                     /\ UNCHANGED qry
    /\ r_bytes' = <<>> /\ ack' = <<>>
    /\ count0' = error_count
    /\ UNCHANGED <<error_count, io, pending, replies, ntimeouts>>
    /\ UNCHANGED <<srvvars, decvars, psvars>>

\* lines 100-101: the request frame is written
Loop1Write ==
    /\ gpc = "loop1" /\ Vals(ack) # fromhex(<<"08">>)
    /\ Len(replies) < MaxFrames
    /\ Write(fromhex(StrTimes(qry, 6)), TRUE)
    /\ gpc' = "read1"
    /\ UNCHANGED <<fn, command, qry, r_bytes, ack, error_count, count0, ntimeouts>>
    /\ UNCHANGED <<srvvars, decvars, psvars>>

\* line 102
Read1 ==
    /\ gpc = "read1"
    /\ \E k \in ReadSizes(read_length_dict[qry]) :
         /\ Read(read_length_dict[qry], k)
         /\ r_bytes' = SubSeq(pending, 1, k)
    /\ gpc' = "ack1"
    /\ UNCHANGED <<fn, command, qry, ack, error_count, count0, replies>>
    /\ UNCHANGED <<srvvars, decvars, psvars>>

\* Count with the test of line 105 left out
Count_Always(a) == error_count + 1

\* lines 105-106
Count(a) == IF Vals(a) # fromhex(<<"08">>) THEN error_count + 1 ELSE error_count

\* lines 103-106
Ack1 ==
    /\ gpc = "ack1"
    /\ \E k \in ReadSizes(1) :
         /\ Read(1, k)
         /\ ack' = SubSeq(pending, 1, k)
         /\ error_count' = Count(SubSeq(pending, 1, k))
    /\ gpc' = "loop1"
    /\ UNCHANGED <<fn, command, qry, r_bytes, count0, replies>>
    /\ UNCHANGED <<srvvars, decvars, psvars>>

\* lines 100, 108-109: the frame is acknowledged
Loop1Exit ==
    /\ gpc = "loop1" /\ Vals(ack) = fromhex(<<"08">>)
    /\ gpc' = IF qry = "03" \/ qry = "04" THEN "returned" ELSE "loop2"
    /\ UNCHANGED <<fn, command, qry, r_bytes, ack, error_count, count0, io, pending,
                   replies, ntimeouts>>
    /\ UNCHANGED <<srvvars, decvars, psvars>>

\* lines 111-112: the continue frame is written
Loop2Write ==
    /\ gpc = "loop2" /\ Vals(ack) # fromhex(<<"07">>)
    /\ Len(replies) < MaxFrames
    /\ Write(fromhex(StrTimes("08", 6)), TRUE)
    /\ gpc' = "read2"
    /\ UNCHANGED <<fn, command, qry, r_bytes, ack, error_count, count0, ntimeouts>>
    /\ UNCHANGED <<srvvars, decvars, psvars>>

\* Extend with = in place of the += of line 113
Extend_Replace(old, new) == new

\* line 113: r += ...
Extend(old, new) == old \o new

\* line 113
Read2 ==
    /\ gpc = "read2"
    /\ \E k \in ReadSizes(read_length_dict[qry]) :
         /\ Read(read_length_dict[qry], k)
         /\ r_bytes' = Extend(r_bytes, SubSeq(pending, 1, k))
    /\ gpc' = "ack2"
    /\ UNCHANGED <<fn, command, qry, ack, error_count, count0, replies>>
    /\ UNCHANGED <<srvvars, decvars, psvars>>

\* line 114
Ack2 ==
    /\ gpc = "ack2"
    /\ \E k \in ReadSizes(1) :
         /\ Read(1, k)
         /\ ack' = SubSeq(pending, 1, k)
    /\ gpc' = "loop2"
    /\ UNCHANGED <<fn, command, qry, r_bytes, error_count, count0, replies>>
    /\ UNCHANGED <<srvvars, decvars, psvars>>

\* lines 111, 116: the reply is complete
Loop2Exit ==
    /\ gpc = "loop2" /\ Vals(ack) = fromhex(<<"07">>)
    /\ gpc' = "returned"
    /\ UNCHANGED <<fn, command, qry, r_bytes, ack, error_count, count0, io, pending,
                   replies, ntimeouts>>
    /\ UNCHANGED <<srvvars, decvars, psvars>>

\* lines 134-136 of command
CmdWrite ==
    /\ gpc = "cmd_write"
    /\ Write(fromhex(StrTimes(qry, 6)), FALSE)
    /\ gpc' = "returned"
    /\ UNCHANGED <<fn, command, qry, r_bytes, ack, error_count, count0, ntimeouts>>
    /\ UNCHANGED <<srvvars, decvars, psvars>>

\* before the call; e is what the queries of another object left in error_count
GMIdle(e) ==
    /\ gpc = "idle"
    /\ fn = "" /\ command = "" /\ qry = ""
    /\ r_bytes = <<>> /\ ack = <<>>
    /\ error_count = e /\ count0 = e
    /\ io = <<>> /\ pending = <<>> /\ replies = <<>>
    /\ ntimeouts = 0

(***************************************************************************)
(* GM3.get_instantenous_data (device_models.py).  The bytes object the     *)
(* query returned is a sequence of values 0..255, its hex() text a         *)
(* sequence of hex digits 0..15.  A reading is the exact decimal value     *)
(* m * 10^(-e) of the product of line 179, kept as the pair [m, e] with no *)
(* trailing zero in m while e > 0 (zero is [0, 0]): two readings are the   *)
(* same pair exactly when they are the same number.                        *)
(***************************************************************************)
\* six-byte sections in the buffers the decoder is run on
MaxSections == 5

\* bytes.hex(): two hex digits per byte, high digit first
Hex(bs) ==
    [i \in 1..(2 * Len(bs)) |->
        IF i % 2 = 1 THEN bs[(i + 1) \div 2] \div 16 ELSE bs[i \div 2] % 16]

\* the slice s[a:b] of a str
Slice(s, a, b) == SubSeq(s, a + 1, IF b < Len(s) THEN b ELSE Len(s))

\* int(s, 16)
RECURSIVE Int16(_)
Int16(s) ==
    IF Len(s) = 0 THEN 0
    ELSE 16 * Int16(SubSeq(s, 1, Len(s) - 1)) + s[Len(s)]

\* the number m * 10^(-e)
RECURSIVE Number(_, _)
Number(m, e) ==
    IF m = 0 THEN [m |-> 0, e |-> 0]
    ELSE IF e > 0 /\ m % 10 = 0 THEN Number(m \div 10, e - 1)
    ELSE [m |-> m, e |-> e]

\* byte_2_of read from the first byte of the section
byte_2_of_FirstByte(query_string, section_i) ==
    Int16(Slice(query_string, section_i, section_i + 2))

\* line 169
byte_2_of(query_string, section_i) ==
    Int16(Slice(query_string, section_i + 2, section_i + 4))

\* line 170
bytes_3456_of(query_string, section_i) ==
    Int16(Slice(query_string, section_i + 4, section_i + 12))

\* lines 172-174: byte_2 & 0x08
sign_of(byte_2) == IF (byte_2 \div 8) % 2 = 1 THEN -1 ELSE 1

\* lines 176-177: byte_2 & 0x07, the inverse power of ten
exponent_of(byte_2) == byte_2 % 8

\* line 165
number_of_measurables(query_string) == (Len(query_string) \div 2) \div 6

\* lines 167-179: the reading of one section
measurable(query_string, measurable_i) ==
    LET section_i == measurable_i * 12
        byte_2 == byte_2_of(query_string, section_i)
        digits == bytes_3456_of(query_string, section_i)
    IN  Number(sign_of(byte_2) * digits, exponent_of(byte_2))

\* lines 157-181
decode(bs) ==
    LET query_string == Hex(bs)
    IN  [i \in 1..number_of_measurables(query_string) |->
            measurable(query_string, i - 1)]

\* sections the gaussmeter sends
TestSections ==
    { <<0, 8, 0, 0, 39, 16>>,
      <<0, 0, 0, 0, 0, 0>>,
      <<255, 8, 0, 0, 0, 0>>,
      <<0, 1, 0, 0, 0, 10>>,
      <<0, 240, 0, 0, 0, 1>>,
      <<170, 15, 1, 2, 3, 4>> }

\* bytes that follow the last whole section
Tails == {<<>>, <<0>>}

RECURSIVE Concat(_)
Concat(ss) == IF Len(ss) = 0 THEN <<>> ELSE Head(ss) \o Concat(Tail(ss))

Buffers ==
    { Concat(ss) \o t :
        ss \in UNION {[1..n -> TestSections] : n \in 0..MaxSections}, t \in Tails }

\* lines 154-181: query_bytes is what query('STREAM_DATA') returned
Decode ==
    /\ dpc = "call"
    /\ readings' = decode(query_bytes)
    /\ dpc' = "returned"
    /\ UNCHANGED query_bytes
    /\ UNCHANGED <<srvvars, gmvars, psvars>>

DecIdle ==
    /\ query_bytes = <<>>
    /\ readings = <<>>
    /\ dpc = "idle"

\* main after line 199, no device method running
SrvInit ==
    /\ pc = "top"
    /\ now = 0
    /\ t0 = 0
    /\ asm = AsmInit
    /\ ps = PsInit
    /\ wire = <<>>
    /\ rxbuf = <<>>
    /\ closed = FALSE
    /\ nsent = 0
    /\ data = <<>>
    /\ out = None
    /\ exc = <<>>
    /\ tx = <<>>
    /\ stepsSincePoll = 0
    /\ lastStepEnd = -1
    /\ lastWrite = [f \in Noted |-> [set |-> FALSE, v |-> 0]]

\* no call made yet
NoCall == [m |-> "", channel |-> 0, arg |-> 0, exc |-> ""]

Init == SrvInit /\ GMIdle(0) /\ DecIdle /\ call = NoCall

Server ==
    \/ StepBegin
    \/ StepEnd
    \/ StepFail
    \/ SkipStep
    \/ ForceZero
    \/ RecvBlocked
    \/ RecvEof
    \/ RecvData

Network ==
    \/ ClientClose
    \/ Deliver
    \/ Tick

SendAny == ClientSend(AllLines, MaxLines)
SendCtl == ClientSend(CtlLines, MaxCtlLines)

Next == Server \/ Network \/ SendAny
NextCtl == Server \/ Network \/ SendCtl

\* a session in which the client sends any line
Spec == Init /\ [][Next]_vars
\* a session in which the client drives the controller
SpecCtl == Init /\ [][NextCtl]_vars

\* the first call of a method of one GM3 object.  error_count is a global of
\* the module (line 22; line 49 binds it in query), one for all GM3 objects:
\* it holds the failed attempts of the queries made earlier on another object.
InitGM == SrvInit /\ (\E e \in {0, 1} : GMIdle(e)) /\ DecIdle /\ call = NoCall
NextGM ==
    \/ GMCall
    \/ Loop1Write
    \/ Read1
    \/ Ack1
    \/ Loop1Exit
    \/ Loop2Write
    \/ Read2
    \/ Ack2
    \/ Loop2Exit
    \/ CmdWrite
SpecGM == InitGM /\ [][NextGM]_vars

(***************************************************************************)
(* The supply object on its own: any sequence of calls of its setters and  *)
(* of the two dispatcher commands that reset it.                           *)
(***************************************************************************)
\* the arguments of the calls: 0, 1, 5.0004 and 40 volts; 0, 1 and 4 amperes
VoltArgs == {0, 10000, 50004, 400000}
AmpArgs == {0, 10000, 40000}

\* one call of a setter: the supply afterwards, and what the call was
Called(m, channel, arg, res) ==
    /\ ps' = res.ps
    /\ call' = [m |-> m, channel |-> channel, arg |-> arg, exc |-> res.exc]
    /\ UNCHANGED <<pc, now, t0, asm, wire, rxbuf, closed, nsent, data, out, exc, tx,
                   stepsSincePoll, lastStepEnd, lastWrite>>
    /\ UNCHANGED <<gmvars, decvars>>

\* device_models.py lines 417-431
CallSetVoltage ==
    \E ch \in Channels, v \in VoltArgs :
        Called("set_set_voltage", ch, v, set_set_voltage(ps, ch, v))

\* device_models.py lines 433-447
CallSetCurrent ==
    \E ch \in Channels, v \in AmpArgs :
        Called("set_set_current", ch, v, set_set_current(ps, ch, v))

\* device_models.py lines 449-461
CallVoltageLimit ==
    \E ch \in Channels, v \in VoltArgs :
        Called("set_channel_voltage_limit", ch, v,
               set_channel_voltage_limit(ps, ch, v))

\* device_models.py lines 463-475
CallCurrentLimit ==
    \E ch \in Channels, v \in AmpArgs :
        Called("set_channel_current_limit", ch, v,
               set_channel_current_limit(ps, ch, v))

\* process_command(cmd, assembly) called with PS:STOP or PS:RSET
CallDispatch ==
    \E l \in {Line0("PS:STOP"), Line0("PS:RSET")} :
        LET res == process_command(l, asm, ps)
        IN  /\ data' = l
            /\ out' = res.out
            /\ asm' = res.asm
            /\ ps' = res.ps
            /\ call' = [m |-> "process_command", channel |-> asm.supply_channel,
                        arg |-> 0, exc |-> res.exc]
            /\ UNCHANGED <<pc, now, t0, wire, rxbuf, closed, nsent, exc, tx,
                           stepsSincePoll, lastStepEnd, lastWrite>>
            /\ UNCHANGED <<gmvars, decvars>>

InitPs == Init
NextPs ==
    \/ CallSetVoltage
    \/ CallSetCurrent
    \/ CallVoltageLimit
    \/ CallCurrentLimit
    \/ CallDispatch
SpecPs == InitPs /\ [][NextPs]_vars

\* get_instantenous_data on any buffer of Buffers
InitDec ==
    /\ SrvInit /\ GMIdle(0)
    /\ query_bytes \in Buffers
    /\ readings = <<>>
    /\ dpc = "call"
    /\ call = NoCall
NextDec == Decode
SpecDec == InitDec /\ [][NextDec]_vars

(***************************************************************************)
(* Properties.                                                             *)
(***************************************************************************)
\* the actuator command: the set voltage of the assembly's channel
ActuatorCommand == get_set_voltage(ps, asm.supply_channel)

\* process_command returned in this iteration
Dispatched == pc = "top" /\ data # <<>>

\* process_command raised in this iteration
CommandRaised == pc = "crashed" /\ exc[2] = "process_command"

\* this step is the recv of the buffered text rxbuf and what main does with it
Handled == pc = "recv" /\ rxbuf # <<>> /\ pc' # "recv"

\* the last completed PD:REGT write was `PD:REGT 0`
RegtOff == lastWrite["PD:REGT"].set /\ lastWrite["PD:REGT"].v = 0

C3_OneStepPerPoll ==
    /\ [](stepsSincePoll <= 1)
    /\ [][Handled
            => (data' = rxbuf /\ rxbuf' = <<>> /\ pc' \in {"top", "crashed"}
                /\ LET r == process_command(rxbuf, asm, ps)
                   IN  asm' = r.asm /\ ps' = r.ps /\ (r.exc = "" => out' = r.out))]_vars

C3_Witness == Dispatched /\ Regulating(asm) /\ lastStepEnd = now /\ t0 = now

\* C4 as claimed: no exception raised while a command is handled leaves main.
C4_CommandErrorsKeepSession == ~CommandRaised

\* C5: a text that does not end in the carriage return makes process_command
\* raise ValueError with the assembly and the supply untouched and nothing
\* written to the client.
C5_UnterminatedRejected ==
    [][(Handled /\ ~Terminated(rxbuf))
            => (/\ pc' = "crashed" /\ exc' = <<"ValueError", "process_command">>
                /\ asm' = asm /\ ps' = ps /\ tx' = <<>>)]_vars

C5_Witness ==
    /\ CommandRaised /\ ~Terminated(data) /\ Split(data) = <<"PD:SETP", "25.5">>

\* a terminated write whose argument is no number of the field's type
BadNumberWrite(cmd) ==
    LET words == Split(cmd)
    IN  /\ cmd # <<>> /\ Terminated(cmd) /\ Len(words) = 2 /\ words[2] # "?"
        /\ \/ words[1] \in PsFloatCmds \cup DOMAIN PidFloatField /\ ~FloatOk(words[2])
           \/ words[1] \in {"PS:CHIO", "PS:CHAN", "DQ:CHAN", "PD:REGT"} /\ ~IntOk(words[2])

\* C6 as claimed: a write with an unparseable argument changes no state, an
\* error is written to the client and the loop goes on.
C6_BadArgumentReported ==
    [][(Handled /\ BadNumberWrite(rxbuf))
            => (asm' = asm /\ ps' = ps /\ pc' = "top" /\ Len(tx') = 1)]_vars

\* a terminated text that names no command of the dispatch table
NamesNoCommand(cmd) ==
    cmd # <<>> /\ Terminated(cmd)
        /\ (Split(cmd) = <<>> \/ Split(cmd)[1] \notin KnownCmds)

\* C7 as claimed: a terminated text naming no command of the table, with any
\* number of words, gets `ERROR: bad command` + text back, raises nothing and
\* changes no state.
C7_UnknownCommandAnswered ==
    [][(Handled /\ NamesNoCommand(rxbuf))
            => (/\ pc' = "top" /\ asm' = asm /\ ps' = ps
                /\ out' = StrVal(<<"ERROR: bad command">> \o rxbuf)
                /\ tx' = << <<"ERROR: bad command">> \o rxbuf \o <<CR>> >>)]_vars

\* C8 as claimed: a read/write command sent without an argument is a read: it
\* does what the same command with `?` does.
C8_NoArgumentIsRead ==
    [][\A f \in ArgCmds :
          (Handled /\ rxbuf = Line0(f))
            => LET r == process_command(Line(f, "?"), asm, ps)
               IN  /\ pc' = "top" /\ asm' = asm /\ ps' = ps
                   /\ out' = r.out /\ tx' = <<Response(r.out)>>]_vars

ReturnsValue(cmd) ==
    LET words == Split(cmd)
    IN  \/ words[1] \notin KnownCmds
        \/ words[1] \in {"PS:IDN", "DQ:IDN", "PD:IDN", "DQ:TEMP"}
        \/ words[1] \in ArgCmds /\ Len(words) = 2 /\ words[2] = "?"

\* C10: a dispatch that returns a value writes one response, the value's str
\* followed by one carriage return; a dispatch that returns nothing writes
\* nothing.
C10_OneResponsePerResult ==
    Dispatched =>
        IF ReturnsValue(data)
        THEN out # None /\ tx = <<Str(out) \o <<CR>>>>
        ELSE out = None /\ tx = <<>>

C10_Witness ==
    /\ Dispatched /\ data = Line("PS:VSET", "?")
    /\ tx = << <<"0.0", CR>> >>

(***************************************************************************)
(* The scheduler and its failures.                                         *)
(***************************************************************************)
\* C11: a device call that fails inside a control step does not end main:
\* no exception raised in update_supply ever leaves the loop.
C11_StepFailureIsNotFatal ==
    ~(pc = "crashed" /\ exc # <<>> /\ exc[2] = "update_supply")

\* C12: a zero-length read does not end main: the server is never in the
\* state where the loop of lines 200-220 was left by the break of line 213
\* (after it the with blocks close both sockets and main returns).
C12_DisconnectReturnsToAccept == pc # "done"

\* C13: the sample period is positive in every state.
C13_SamplePeriodPositive == asm.sample_time > 0

(***************************************************************************)
(* The framed device channel: GM3.query and GM3.command.                   *)
(***************************************************************************)
\* the reply lengths of the protocol table
TableLength ==
    CASE qry = "01" -> 20 [] qry = "02" -> 20 [] qry = "03" -> 30 [] qry = "04" -> 31

\* the request frame: the opcode byte six times; the continue frame
RequestFrame == [i \in 1..6 |-> HexValue[qry]]
ContinueFrame == [i \in 1..6 |-> 8]

WriteOf(frame) == [op |-> "write", bytes |-> frame, n |-> 6]
ReadOf(n) == [op |-> "read", bytes |-> <<>>, n |-> n]

\* the data bytes the gaussmeter sent in answer to one frame
DataOf(frame) == [i \in 1..TableLength |-> <<DataFill(qry), frame>>]

\* the first frame the gaussmeter acknowledged with 0x08
Acked == \E i \in 1..Len(replies) : replies[i] = 8
FirstAck ==
    CHOOSE i \in 1..Len(replies) :
        replies[i] = 8 /\ \A j \in 1..(i - 1) : replies[j] # 8

\* query has left its first loop
FirstLoopLeft == fn = "query" /\ gpc \in {"loop2", "read2", "ack2", "returned"}

\* C14: when the gaussmeter withholds 0x08 on the first N attempts and sends
\* it on attempt N+1 (no read timing out), the query has written the request
\* frame N+1 times, each followed by a read of the table length and a read of
\* one byte, error_count has grown by exactly N, and a stream or reset query
\* returns exactly the data bytes of attempt N+1.
C14_RetryUntilAcknowledged ==
    (FirstLoopLeft /\ ntimeouts = 0) =>
        /\ Acked
        /\ error_count = count0 + (FirstAck - 1)
        /\ Len(io) >= 3 * FirstAck
        /\ \A j \in 1..FirstAck :
              /\ io[3 * j - 2] = WriteOf(RequestFrame)
              /\ io[3 * j - 1] = ReadOf(TableLength)
              /\ io[3 * j] = ReadOf(1)
        /\ (qry \in {"03", "04"} =>
              /\ gpc = "returned"
              /\ Len(io) = 3 * FirstAck
              /\ r_bytes = DataOf(FirstAck))

\* a stream query acknowledged on its third attempt has returned
C14_Witness ==
    /\ fn = "query" /\ qry = "03" /\ gpc = "returned" /\ ntimeouts = 0
    /\ Len(replies) = 3 /\ error_count = count0 + 2

\* C15: query and command called with an opcode their table does not hold
\* raise before any I/O: nothing is written, nothing is read, error_count is
\* what it was; and they raise for no other argument.
C15_UnknownOpcodeRaises ==
    /\ (fn = "query" /\ command \notin DOMAIN qry_dict) =>
          (gpc = "raised" /\ io = <<>> /\ error_count = count0)
    /\ (fn = "command" /\ command \notin DOMAIN cmd_dict) =>
          (gpc = "raised" /\ io = <<>> /\ error_count = count0)
    /\ gpc = "raised" =>
          command \notin DOMAIN (IF fn = "query" THEN qry_dict ELSE cmd_dict)

\* query was called with a command opcode, command with a query opcode
C15_Witness == gpc = "raised" /\ command \in {"FF", "05"} /\ fn = "query"

\* C16: a first frame that query accepts is never shorter than the table
\* length: an attempt whose data read came back short is not acknowledged.
C16_ShortReadIsFailedAttempt ==
    (fn = "query" /\ gpc = "loop1" /\ Vals(ack) = <<8>>) =>
        Len(r_bytes) = TableLength

\* C17: query retries a bounded number of times (five, the default the design
\* notes propose): after five failed attempts no further request is written.
C17_RetriesBounded ==
    (fn = "query" /\ error_count - count0 >= 5) => gpc \notin {"read1", "ack1"}

\* the writes of a call, in order
RECURSIVE Writes(_)
Writes(log) ==
    IF Len(log) = 0 THEN <<>>
    ELSE IF Head(log).op = "write" THEN <<Head(log).bytes>> \o Writes(Tail(log))
    ELSE Writes(Tail(log))

\* C18: an identity or settings query, once a request frame is acknowledged,
\* writes the continue frame, reads a block and one acknowledge byte, and
\* repeats until that byte is 0x07; what it returns is the data of the
\* acknowledged frame followed by the data of every continuation frame, in
\* order.  A stream or reset query returns after the acknowledged frame and
\* writes no continue frame.
C18_MultiFrameConcatenates ==
    fn = "query" =>
        /\ \A i \in 1..Len(io) :
              /\ (i % 3 = 1) => io[i].op = "write"
              /\ (i % 3 = 2) => io[i] = ReadOf(TableLength)
              /\ (i % 3 = 0) => io[i] = ReadOf(1)
        /\ LET w == Writes(io)
           IN  /\ \A i \in 1..Len(w) : w[i] \in {RequestFrame, ContinueFrame}
               /\ \A i \in 1..Len(w), j \in 1..Len(w) :
                     (i < j /\ w[i] = ContinueFrame) => w[j] = ContinueFrame
               /\ qry \in {"03", "04"} => \A i \in 1..Len(w) : w[i] = RequestFrame
               /\ (gpc = "returned" /\ qry \in {"01", "02"}) =>
                     /\ Vals(ack) = <<7>>
                     /\ w[Len(w)] = ContinueFrame
        /\ (gpc = "returned" /\ ntimeouts = 0) =>
              LET last == Len(replies)
              IN  /\ Acked
                  /\ IF qry \in {"03", "04"} THEN last = FirstAck
                     ELSE /\ last > FirstAck
                          /\ replies[last] = 7
                          /\ \A j \in (FirstAck + 1)..(last - 1) : replies[j] # 7
                  /\ Len(r_bytes) = TableLength * (last - FirstAck + 1)
                  /\ \A i \in 1..Len(r_bytes) :
                        r_bytes[i] =
                            <<DataFill(qry), FirstAck + ((i - 1) \div TableLength)>>

\* an identity query acknowledged on its second attempt has returned after
\* three continuation frames
C18_Witness ==
    /\ fn = "query" /\ qry = "01" /\ gpc = "returned" /\ ntimeouts = 0
    /\ Len(replies) = 5 /\ FirstAck = 2

(***************************************************************************)
(* The decoder: GM3.get_instantenous_data.                                 *)
(***************************************************************************)
\* the i-th six-byte section of the buffer and its fields
SectionAt(i) == SubSeq(query_bytes, 6 * (i - 1) + 1, 6 * i)
SignBit(sec) == sec[2] % 16 >= 8
ExponentBits(sec) == sec[2] - 8 * (sec[2] \div 8)
DigitBytes(sec) == SubSeq(sec, 3, 6)
BigEndian(bs) == bs[1] * 16777216 + bs[2] * 65536 + bs[3] * 256 + bs[4]

\* C19: decoding yields one reading per whole six-byte section, in order
\* (five for a 30-byte reply); the reading of a section is
\* sign * digits * 10^(-exponent), with sign -1 when bit 0x08 of the second
\* byte is set and +1 otherwise, exponent the low three bits of the second
\* byte and digits the big-endian value of bytes 3 to 6; nothing else of the
\* section enters it.
C19_DecodeFormula ==
    dpc = "returned" =>
        /\ Len(readings) = Len(query_bytes) \div 6
        /\ \A i \in 1..Len(readings) :
              LET sec == SectionAt(i)
                  sign == IF SignBit(sec) THEN -1 ELSE 1
              IN  readings[i] =
                      Number(sign * BigEndian(DigitBytes(sec)), ExponentBits(sec))

\* a 30-byte reply was decoded: -10000 first (the worked example), then a
\* reading with a decimal exponent
C19_Witness ==
    /\ dpc = "returned" /\ Len(query_bytes) = 30 /\ Len(readings) = 5
    /\ readings[1] = [m |-> -10000, e |-> 0]
    /\ readings[2] = [m |-> -1690906, e |-> 6]

\* C20: the reading determines the sign bit, the exponent bits and the digit
\* bytes of its section: two sections of a buffer that differ in one of them
\* never decode to the same reading.
C20_DecodeInjective ==
    dpc = "returned" =>
        \A i \in 1..Len(readings), j \in 1..Len(readings) :
            LET a == SectionAt(i)
                b == SectionAt(j)
            IN  (\/ SignBit(a) # SignBit(b)
                 \/ ExponentBits(a) # ExponentBits(b)
                 \/ DigitBytes(a) # DigitBytes(b)) => readings[i] # readings[j]

\* C21: a buffer whose length is not a multiple of 6 is rejected: the
\* decoder never returns from such a buffer.
C21_RemainderRejected == (Len(query_bytes) % 6 # 0) => dpc # "returned"

(***************************************************************************)
(* The power supply: SPD3303X and the commands that reset it.              *)
(***************************************************************************)
\* C22: PS:STOP leaves the output off and the set voltage and current zero;
\* PS:RSET leaves the set voltage and current zero, both limits at their
\* maximum and the output on, and when the output was off it is switched on
\* only once voltage and current are zero; neither raises, changes a field of
\* the assembly or returns a value.
C22_StopAndReset ==
    [][ (call'.m = "process_command") =>
          LET ch == asm.supply_channel
          IN  /\ call'.exc = "" /\ out' = None /\ asm' = asm
              /\ ps'.set_voltage[ch] = 0 /\ ps'.set_current[ch] = 0
              /\ (data' = Line0("PS:STOP")) => ~ps'.state[ch]
              /\ (data' = Line0("PS:RSET")) =>
                    /\ ps'.state[ch]
                    /\ ps'.channel_voltage_limits[ch] = MAX_voltage_limit
                    /\ ps'.channel_current_limits[ch] = MAX_current_limit
                    /\ LET t == PsResetSteps(asm, ps)
                       IN  ~ps.state[ch] =>
                             \A i \in 1..Len(t) :
                                 t[i].ps.state[ch] =>
                                     /\ t[i].ps.set_voltage[ch] = 0
                                     /\ t[i].ps.set_current[ch] = 0 ]_vars

\* PS:RSET was dispatched on a supply whose channel 2 holds a set voltage
C22_Witness ==
    /\ call.m = "process_command" /\ data = Line0("PS:RSET")
    /\ ps.state[1] /\ ps.set_voltage[2] > 0

\* C23: set_set_voltage stores round(volts, 3) in the supply when that is not
\* higher than the channel's voltage limit, and otherwise raises ValueError
\* and leaves the supply as it was; set_set_current does the same with the
\* current limit.
C23_SetRefusedAboveLimit ==
    [][ /\ (call'.m = "set_set_voltage") =>
             LET ch == call'.channel
             IN  IF Round3(call'.arg) <= ps.channel_voltage_limits[ch]
                 THEN /\ call'.exc = ""
                      /\ ps'.set_voltage[ch] % 10 = 0
                      /\ ps'.set_voltage[ch] - call'.arg \in -5..5
                      /\ ps' = [ps EXCEPT !.set_voltage[ch] = ps'.set_voltage[ch]]
                 ELSE call'.exc = "ValueError" /\ ps' = ps
        /\ (call'.m = "set_set_current") =>
             LET ch == call'.channel
             IN  IF Round3(call'.arg) <= ps.channel_current_limits[ch]
                 THEN /\ call'.exc = ""
                      /\ ps'.set_current[ch] % 10 = 0
                      /\ ps'.set_current[ch] - call'.arg \in -5..5
                      /\ ps' = [ps EXCEPT !.set_current[ch] = ps'.set_current[ch]]
                 ELSE call'.exc = "ValueError" /\ ps' = ps ]_vars

\* 5.0004 V was refused on a channel whose limit had been lowered to 1 V
C23_Witness ==
    /\ call.m = "set_set_voltage" /\ call.exc = "ValueError" /\ call.arg = 50004
    /\ ps.channel_voltage_limits[call.channel] = 10000

\* C25: on each channel the set voltage is not higher than the voltage limit
\* and the set current not higher than the current limit, and every limit is
\* greater than 0 and not higher than the supply's maximum.
C25_SetValuesWithinLimits ==
    \A ch \in Channels :
        /\ ps.set_voltage[ch] <= ps.channel_voltage_limits[ch]
        /\ ps.set_current[ch] <= ps.channel_current_limits[ch]
        /\ ps.channel_voltage_limits[ch] > 0
        /\ ps.channel_voltage_limits[ch] <= MAX_voltage_limit
        /\ ps.channel_current_limits[ch] > 0
        /\ ps.channel_current_limits[ch] <= MAX_current_limit

\* C24: the failed-attempt count is owned by the GM3 object: the count a
\* query leaves is the number of its own acknowledgments that failed,
\* whatever happened in earlier queries on another object.
C24_CountOwnedByInstance ==
    (FirstLoopLeft /\ ntimeouts = 0) => error_count = FirstAck - 1

(***************************************************************************)
(* Line framing and the enabling of regulation.                            *)
(***************************************************************************)
\* C26: what main hands to process_command is always one whole line the
\* client sent: never a fragment of a line, never two lines together.
C26_OneLinePerDispatch == (data # <<>>) => data \in CtlLines

\* C27: a control step runs only on a supply that was configured: whenever
\* main is inside update_supply, configure_power_supply has been called.
C27_StepOnlyWhenConfigured == (pc = "step") => asm.configured

====
